---- MODULE Spec2Model ----
(***************************************************************************)
(* Type canonicalisation engine of true-pg: the type-text parser           *)
(* (parseRawType), the catalog queries (resolveBasicInfo and the four      *)
(* kind-detail resolvers), the breadth-first scheduler (canonicaliseQueue) *)
(* and the placeholder queue of DbAdapter (enqueue / resolve).             *)
(*                                                                         *)
(* A type text is a sequence of tokens.  The tokens "(", ")", "[", "]" and *)
(* " " are the characters the parser looks at; every other token stands    *)
(* for a maximal run of other characters (an identifier, a modifier list). *)
(***************************************************************************)
EXTENDS Integers, Sequences, FiniteSets, TLC

\* ------------------------------------------------------------------ bounds
MaxLen == 6          \* longest type text given to the parser on its own
MaxEnqueue == 2      \* enqueue calls per session
MaxResolve == 2      \* resolve calls per session
MaxColumns == 2      \* columns of a table definition given to its parser
TreeDepth == 4       \* levels of a placeholder tree that are compared

\* ----------------------------------------------------------------- helpers
Null == <<"<null>">>

Last(s) == s[Len(s)]

RECURSIVE SeqsUpTo(_, _)
SeqsUpTo(S, n) ==
    IF n = 0 THEN {<<>>}
    ELSE LET shorter == SeqsUpTo(S, n - 1)
         IN  shorter \cup {Append(s, t) : s \in {x \in shorter : Len(x) = n - 1}, t \in S}

\* String.prototype.trim on a token sequence: whitespace tokens at both ends go
RECURSIVE TrimEnd(_)
TrimEnd(s) == IF Len(s) > 0 /\ Last(s) = " " THEN TrimEnd(SubSeq(s, 1, Len(s) - 1)) ELSE s

RECURSIVE TrimStart(_)
TrimStart(s) == IF Len(s) > 0 /\ s[1] = " " THEN TrimStart(Tail(s)) ELSE s

Trim(s) == TrimStart(TrimEnd(s))

\* base.endsWith("[]")
EndsWithBrackets(s) == Len(s) >= 2 /\ s[Len(s) - 1] = "[" /\ s[Len(s)] = "]"

\* ------------------------------------------------------------ parseRawType
\* base.match(/\(([^)]*)\)$/): index of the "(" of the leftmost match, 0 for
\* no match.  A match starts at a "(" whose first following ")" is the last
\* character of the text.
ModifierMatch(s) ==
    LET cands == {i \in 1..Len(s) :
                     /\ s[i] = "("
                     /\ Len(s) > i
                     /\ s[Len(s)] = ")"
                     /\ \A j \in (i + 1)..(Len(s) - 1) : s[j] # ")"}
    IN  IF cands = {} THEN 0 ELSE CHOOSE i \in cands : \A j \in cands : i <= j

\* while (base.endsWith("[]")) { dimensions++; base = base.slice(0, -2) }
RECURSIVE StripBrackets(_, _)
StripBrackets(base, dimensions) ==
    IF EndsWithBrackets(base)
    THEN StripBrackets(SubSeq(base, 1, Len(base) - 2), dimensions + 1)
    ELSE [base |-> base, dimensions |-> dimensions]

parseRawType(type) ==
    LET m == ModifierMatch(type)
        modifiers == IF m > 0 THEN SubSeq(type, m + 1, Len(type) - 1) ELSE Null
        base1 == IF m > 0 THEN Trim(SubSeq(type, 1, m - 1)) ELSE type
        st == StripBrackets(base1, 0)
    IN  [original |-> type, plain |-> st.base, modifiers |-> modifiers,
         dimensions |-> st.dimensions]

\* ------------------------------------------------------------- the catalog
\* A fixed catalog (pg_type joined with pg_namespace and pg_range), indexed by
\* oid.  typtype "m" (a multirange) is a category the engine does not support.
PgType == <<
    [typname |-> "text",       nspname |-> "pg_catalog", typtype |-> "b", typelem |-> 0, typrelid |-> 0,   typbasetype |-> 0,  rngsubtype |-> 0],
    [typname |-> "_mood",      nspname |-> "public",     typtype |-> "b", typelem |-> 4, typrelid |-> 0,   typbasetype |-> 0,  rngsubtype |-> 0],
    [typname |-> "numeric",    nspname |-> "pg_catalog", typtype |-> "b", typelem |-> 0, typrelid |-> 0,   typbasetype |-> 0,  rngsubtype |-> 0],
    [typname |-> "mood",       nspname |-> "public",     typtype |-> "e", typelem |-> 0, typrelid |-> 0,   typbasetype |-> 0,  rngsubtype |-> 0],
    [typname |-> "nolabel",    nspname |-> "public",     typtype |-> "e", typelem |-> 0, typrelid |-> 0,   typbasetype |-> 0,  rngsubtype |-> 0],
    [typname |-> "addr",       nspname |-> "public",     typtype |-> "c", typelem |-> 0, typrelid |-> 106, typbasetype |-> 0,  rngsubtype |-> 0],
    [typname |-> "person",     nspname |-> "public",     typtype |-> "c", typelem |-> 0, typrelid |-> 107, typbasetype |-> 0,  rngsubtype |-> 0],
    [typname |-> "empty_c",    nspname |-> "public",     typtype |-> "c", typelem |-> 0, typrelid |-> 108, typbasetype |-> 0,  rngsubtype |-> 0],
    [typname |-> "bad_c",      nspname |-> "public",     typtype |-> "c", typelem |-> 0, typrelid |-> 109, typbasetype |-> 0,  rngsubtype |-> 0],
    [typname |-> "d1",         nspname |-> "public",     typtype |-> "d", typelem |-> 0, typrelid |-> 0,   typbasetype |-> 1,  rngsubtype |-> 0],
    [typname |-> "d2",         nspname |-> "public",     typtype |-> "d", typelem |-> 0, typrelid |-> 0,   typbasetype |-> 10, rngsubtype |-> 0],
    [typname |-> "span",       nspname |-> "public",     typtype |-> "r", typelem |-> 0, typrelid |-> 0,   typbasetype |-> 0,  rngsubtype |-> 3],
    [typname |-> "mr",         nspname |-> "public",     typtype |-> "m", typelem |-> 0, typrelid |-> 0,   typbasetype |-> 0,  rngsubtype |-> 0],
    [typname |-> "anyelement", nspname |-> "pg_catalog", typtype |-> "p", typelem |-> 0, typrelid |-> 0,   typbasetype |-> 0,  rngsubtype |-> 0]
>>

Oids == DOMAIN PgType

\* pg_enum: the labels of an enum type in enumsortorder
PgEnum(oid) ==
    IF PgType[oid].typname = "mood" THEN <<"sad", "ok">> ELSE <<>>

\* pg_attribute: the non-dropped attributes (attnum > 0) of a relation in
\* attnum order, with format_type(atttypid, null) as type_name
PgAttribute(relid) ==
    CASE relid = 106 -> << [name |-> "street", index |-> 1, type_name |-> <<"text">>],
                           [name |-> "mood",   index |-> 2, type_name |-> <<"public.mood">>] >>
      [] relid = 107 -> << [name |-> "home",   index |-> 1, type_name |-> <<"public.addr">>],
                           [name |-> "mood",   index |-> 2, type_name |-> <<"public.mood">>],
                           [name |-> "tags",   index |-> 3, type_name |-> <<"text", "[", "]">>] >>
      [] relid = 109 -> << [name |-> "r",      index |-> 1, type_name |-> <<"public.mr">>] >>
      [] OTHER -> <<>>

\* n.nspname || '.' || t.typname, and format('%I.%I', n.nspname, t.typname)
\* for identifiers that need no quoting
QualifiedNames == [oid \in Oids |-> PgType[oid].nspname \o "." \o PgType[oid].typname]

QualifiedName(oid) == QualifiedNames[oid]

\* name::regtype.  The cast accepts a qualified name, a name on the search
\* path, and either of them followed by a type modifier, which it ignores.
\* 0 stands for the cast raising "type does not exist".
Regtype(plain) ==
    LET n == IF Len(plain) = 1 THEN plain[1]
             ELSE IF Len(plain) = 4 /\ plain[2] = "(" /\ plain[4] = ")" THEN plain[1]
             ELSE ""
        hits == {o \in Oids : n = PgType[o].typname \/ n = QualifiedName(o)}
    IN  IF hits = {} THEN 0 ELSE CHOOSE o \in hits : TRUE

\* ---------------------------------------------------------- resolveBasicInfo
Kind(typtype) ==
    CASE typtype = "b" -> "base"
      [] typtype = "c" -> "composite"
      [] typtype = "d" -> "domain"
      [] typtype = "e" -> "enum"
      [] typtype = "p" -> "pseudo"
      [] typtype = "r" -> "range"
      [] OTHER -> "unknown"

\* type_resolution: follow typelem while the type is a generated array
\* wrapper; the result is the last oid and the level reached
RECURSIVE TypeResolution(_, _)
TypeResolution(oid, level) ==
    IF PgType[oid].typelem # 0 /\ SubSeq(PgType[oid].typname, 1, 1) = "_"
    THEN TypeResolution(PgType[oid].typelem, level + 1)
    ELSE [oid |-> oid, level |-> level]

\* one row of the basic-info query
BasicInfoRow(plain) ==
    LET fr == TypeResolution(Regtype(plain), 1)
        t == PgType[fr.oid]
    IN  [original_name |-> plain,
         oid |-> fr.oid,
         internal_dimensions |-> fr.level - 1,
         schema |-> t.nspname,
         name |-> t.typname,
         canonical_name |-> QualifiedName(fr.oid),
         kind |-> Kind(t.typtype),
         typrelid |-> t.typrelid,
         typbasetype |-> t.typbasetype,
         rngsubtype |-> t.rngsubtype]

\* resolveBasicInfo(db, types): one row per name, in input order
resolveBasicInfo(types) == [i \in 1..Len(types) |-> BasicInfoRow(types[i])]

\* the query raises when a name does not cast to regtype
Unresolvable(types) == {i \in 1..Len(types) : Regtype(types[i]) = 0}

\* ------------------------------------------------------------ heap objects
\* A JavaScript object: "keys" is the set of its own properties, the other
\* fields hold their values (a default where the property is absent).
\* Placeholders are referred to by their index in the heap; 0 is undefined.
EmptyObject ==
    [keys |-> {}, kind |-> "", oid |-> 0, typrelid |-> 0, typbasetype |-> 0,
     rngsubtype |-> 0, canonical_name |-> "", schema |-> "", name |-> "",
     original_type |-> <<>>, modifiers |-> Null, dimensions |-> 0,
     enum_values |-> <<>>, attributes |-> <<>>, domain_base_type |-> 0,
     range_subtype |-> 0]

\* Object.assign(target, source)
ObjectAssign(target, source) ==
    LET pick(f) == IF f \in source.keys THEN source[f] ELSE target[f]
    IN  [keys |-> target.keys \cup source.keys,
         kind |-> pick("kind"), oid |-> pick("oid"), typrelid |-> pick("typrelid"),
         typbasetype |-> pick("typbasetype"), rngsubtype |-> pick("rngsubtype"),
         canonical_name |-> pick("canonical_name"), schema |-> pick("schema"),
         name |-> pick("name"), original_type |-> pick("original_type"),
         modifiers |-> pick("modifiers"), dimensions |-> pick("dimensions"),
         enum_values |-> pick("enum_values"), attributes |-> pick("attributes"),
         domain_base_type |-> pick("domain_base_type"),
         range_subtype |-> pick("range_subtype")]

SeqRange(s) == {s[i] : i \in 1..Len(s)}

RECURSIVE Concat(_)
Concat(ss) == IF ss = <<>> THEN <<>> ELSE Head(ss) \o Concat(Tail(ss))

\* [...new Set(names)]: the distinct elements in order of first occurrence
Distinct(s) ==
    LET firsts == {i \in 1..Len(s) : \A j \in 1..(i - 1) : s[j] # s[i]}
        nth(k) == CHOOSE i \in firsts : Cardinality({j \in firsts : j <= i}) = k
    IN  [k \in 1..Cardinality(firsts) |-> s[nth(k)]]

\* QueueMember { type, out: {} }: the member and the placeholder it allocates
\* mutant: a member whose out is the object of the previous enqueue call
QueueMemberShared(type, id) == [type |-> type, out |-> IF id > 1 THEN id - 1 ELSE id]

QueueMember(type, id) == [type |-> type, out |-> id]

\* ---------------------------------------------------- kind-detail resolvers
\* Each resolver gets the batch of basic-info rows of its kind and the heap
\* index the next placeholder of the scheduler's enqueue callback will get;
\* it returns the details and the members it pushed on the follow-up queue.

\* getEnumDetails: the query joins pg_enum, so it returns a row only for an
\* enum that has a label; row i is paired with entries[i]
getEnumDetails(entries) ==
    LET results == SelectSeq([i \in 1..Len(entries) |-> PgEnum(entries[i].oid)],
                             LAMBDA v : v # <<>>)
    IN  [details |-> [i \in 1..Len(results) |->
                        [keys |-> {"kind", "canonical_name", "enum_values"},
                         kind |-> "enum",
                         canonical_name |-> entries[i].canonical_name,
                         enum_values |-> results[i]]],
         members |-> <<>>]

\* getCompositeDetails: the query joins pg_attribute, so it returns a row
\* only for a relation that has an attribute; row i is paired with entries[i]
\* and every attribute type is handed to enqueue
getCompositeDetails(entries, nextId) ==
    LET results == SelectSeq([i \in 1..Len(entries) |-> PgAttribute(entries[i].typrelid)],
                             LAMBDA v : v # <<>>)
        before(k) == Len(Concat(SubSeq(results, 1, k - 1)))
        placeholder(k, j) == nextId + before(k) + j - 1
    IN  [details |-> [k \in 1..Len(results) |->
                        [keys |-> {"kind", "canonical_name", "attributes"},
                         kind |-> "composite",
                         canonical_name |-> entries[k].canonical_name,
                         attributes |-> [j \in 1..Len(results[k]) |->
                                           [name |-> results[k][j].name,
                                            index |-> results[k][j].index,
                                            type |-> placeholder(k, j)]]]],
         members |-> Concat([k \in 1..Len(results) |->
                               [j \in 1..Len(results[k]) |->
                                  QueueMember(results[k][j].type_name, placeholder(k, j))]])]

\* mutant: the immediate parent of a domain instead of the end of its chain
ParentOnly(oid) == PgType[oid].typbasetype

\* domain_chain / final_base: the typbasetype of the last domain of the chain
\* that starts at oid, or oid itself when it is no domain
RECURSIVE FinalBase(_)
FinalBase(oid) ==
    IF PgType[oid].typtype = "d" THEN FinalBase(PgType[oid].typbasetype) ELSE oid

\* getDomainDetails: one row per entry, the qualified name of its final base
getDomainDetails(entries, nextId) ==
    LET results == [i \in 1..Len(entries) |-> <<QualifiedName(FinalBase(entries[i].oid))>>]
    IN  [details |-> [i \in 1..Len(results) |->
                        [keys |-> {"kind", "canonical_name", "domain_base_type"},
                         kind |-> "domain",
                         canonical_name |-> entries[i].canonical_name,
                         domain_base_type |-> nextId + i - 1]],
         members |-> [i \in 1..Len(results) |-> QueueMember(results[i], nextId + i - 1)]]

\* the oids getRangeDetails sends to its query
RangeQueryOids(entries) == [i \in 1..Len(entries) |-> entries[i].oid]

\* getRangeDetails: one row per oid sent, the qualified name of that oid
getRangeDetails(entries, nextId) ==
    LET oids == RangeQueryOids(entries)
        results == [i \in 1..Len(oids) |-> <<QualifiedName(oids[i])>>]
    IN  [details |-> [i \in 1..Len(results) |->
                        [keys |-> {"kind", "canonical_name", "range_subtype"},
                         kind |-> "range",
                         canonical_name |-> entries[i].canonical_name,
                         range_subtype |-> nextId + i - 1]],
         members |-> [i \in 1..Len(results) |-> QueueMember(results[i], nextId + i - 1)]]

\* -------------------------------------------------------------------- state
VARIABLES
    queue,          \* DbAdapter.#resolveQueue: sequence of QueueMember
    queryCount,     \* DbAdapter.queryCount
    heap,           \* the objects allocated so far (placeholders), by index
    pc,             \* where the resolve call in flight stands; "idle" for none
    depth,          \* recursion depth of the canonicaliseQueue frame in flight
    inner,          \* the queue argument of a recursive frame (depth > 0)
    parsed,         \* parsed: the frame's queue, parsed when the frame started
    plain,          \* plain: the names the frame sends to resolveBasicInfo
    resolveCache,   \* plain name -> basic info
    canonCache,     \* canonical name -> kind-specific detail
    batches,        \* batches.enums / composites / domains / ranges
    pending,        \* the kind-detail calls that have not returned yet
    details,        \* what the kind-detail calls returned
    internalQueue,  \* the frame's follow-up queue
    results,        \* what canonicaliseQueue returned to DbAdapter.resolve
    outcome,        \* how the last resolve call ended: "none", "ok", "error"
    err,            \* the error the last failed resolve call raised
    handles,        \* history: the placeholders enqueue returned, in order
    batch,          \* history: the members queued when the resolve call started
    atCall,         \* history: the heap when the resolve call started
    basicLog,       \* history: plain names sent to the catalog, this session
    detailLog,      \* history: canonical names sent to a detail query, session
    callLog,        \* history: the same, for the resolve call in flight or last
    frameLog,       \* history: the queries each canonicaliseQueue frame issued
    nEnqueue,       \* enqueue calls so far
    nResolve,       \* resolve calls so far
    pText,          \* a text given to a parser on its own; a table definition
                    \* comes with the columns it was written from
    pOut,           \* what the parser returned for it
    settled,        \* history: the placeholders a successful resolve call filled
    xpc,            \* where Extractor.extractSchemas stands; "off" for not called
    typesToExtract, \* extractSchemas: typesToExtract
    populators,     \* where the populator of each type to extract stands
    progress,       \* history: the calls of the three progress callbacks, in order
    extracted       \* what extractSchemas returned

extractVars == <<xpc, typesToExtract, populators, progress, extracted>>

vars == <<queue, queryCount, heap, pc, depth, inner, parsed, plain, resolveCache,
          canonCache, batches, pending, details, internalQueue, results, outcome,
          err, handles, batch, atCall, basicLog, detailLog, callLog, frameLog,
          nEnqueue, nResolve, pText, pOut, settled, extractVars>>

engineVars == <<queue, queryCount, heap, pc, depth, inner, parsed, plain,
                resolveCache, canonCache, batches, pending, details,
                internalQueue, results, outcome, err, handles, batch, atCall,
                basicLog, detailLog, callLog, frameLog, nEnqueue, nResolve,
                settled, extractVars>>

frameVars == <<depth, inner, parsed, plain, batches, pending, details, internalQueue>>

NotExtracted == [queryCount |-> -1]

NoError == [kind |-> "none", depth |-> 0, text |-> <<>>, names |-> <<>>]

NoBatches == [enums |-> <<>>, composites |-> <<>>, domains |-> <<>>, ranges |-> <<>>]

NoDetails == [enums |-> <<>>, composites |-> <<>>, domains |-> <<>>, ranges |-> <<>>]

\* the type texts callers enqueue: names, names with a modifier, arrays
RequestTypes ==
    { <<"_mood">>, <<"numeric", "(", "10,2", ")", "[", "]">>, <<"numeric", "(", "10,2", ")">>,
      <<"public.nolabel">>,
      <<"public.person">>, <<"public.empty_c">>, <<"public.bad_c">>,
      <<"public.d2">>, <<"public.span">>, <<"public.mr">>,
      <<"public.does_not_exist">> }

\* the type texts callers enqueue while a resolve call is in flight
LateTypes == { <<"public.span">> }

ParserTokens == {"numeric", "10,2", "(", ")", "[", "]", " "}

NotParsed == [original |-> <<>>, plain |-> <<>>, modifiers |-> Null, dimensions |-> -1]

EngineInit ==
    /\ queue = <<>>
    /\ queryCount = 0
    /\ heap = <<>>
    /\ pc = "idle"
    /\ depth = 0
    /\ inner = <<>>
    /\ parsed = <<>>
    /\ plain = <<>>
    /\ resolveCache = <<>>
    /\ canonCache = <<>>
    /\ batches = NoBatches
    /\ pending = {}
    /\ details = NoDetails
    /\ internalQueue = <<>>
    /\ results = <<>>
    /\ outcome = "none"
    /\ err = NoError
    /\ handles = <<>>
    /\ batch = <<>>
    /\ atCall = <<>>
    /\ basicLog = <<>>
    /\ detailLog = <<>>
    /\ callLog = <<>>
    /\ frameLog = <<>>
    /\ settled = {}
    /\ xpc = "off"
    /\ typesToExtract = <<>>
    /\ populators = <<>>
    /\ progress = <<>>
    /\ extracted = NotExtracted
    /\ nEnqueue = 0
    /\ nResolve = 0

Init ==
    /\ EngineInit
    /\ pText = <<>>
    /\ pOut = NotParsed

\* ------------------------------------------------------- DbAdapter.enqueue
\* const member = { type, out: {} }; this.#resolveQueue.push(member);
\* return member.out
Enqueue(type) ==
    /\ nEnqueue < MaxEnqueue
    /\ pc # "idle" => type \in LateTypes
    /\ heap' = Append(heap, EmptyObject)
    /\ queue' = Append(queue, QueueMember(type, Len(heap) + 1))
    /\ handles' = Append(handles, Len(heap) + 1)
    /\ nEnqueue' = nEnqueue + 1
    /\ UNCHANGED <<queryCount, pc, frameVars, resolveCache, canonCache, results,
                   outcome, err, batch, atCall, basicLog, detailLog, callLog, frameLog,
                   nResolve, pText, pOut, settled, extractVars>>

\* -------------------------------------------------------- canonicaliseQueue
\* the queue of the frame in flight: the adapter's own array at depth 0
FrameQueue == IF depth = 0 THEN queue ELSE inner

\* mutant: a raising resolve call empties the queue as a returning one does
RaiseAndReset(kind, text, names) ==
    /\ pc' = "idle"
    /\ outcome' = "error"
    /\ err' = [kind |-> kind, depth |-> depth, text |-> text, names |-> names]
    /\ queue' = <<>>

\* the resolve call in flight raises: the promise rejects, DbAdapter.resolve
\* does not reach resetQueue
Raise(kind, text, names) ==
    /\ pc' = "idle"
    /\ outcome' = "error"
    /\ err' = [kind |-> kind, depth |-> depth, text |-> text, names |-> names]
    /\ UNCHANGED queue

\* lines 32-37 of a frame on queue q with caches rc: parse, pick the names
\* that are not cached, call resolveBasicInfo (a query unless there is none)
StartFrame(q, d, rc) ==
    \E ps \in {[i \in 1..Len(q) |-> parseRawType(q[i].type)]} :
    \E names \in {Distinct(SelectSeq([i \in 1..Len(ps) |-> ps[i].plain],
                                      LAMBDA n : n \notin DOMAIN rc))} :
        /\ depth' = d
        /\ parsed' = ps
        /\ plain' = names
        /\ queryCount' = IF names = <<>> THEN queryCount ELSE queryCount + 1
        /\ basicLog' = basicLog \o names
        /\ frameLog' = Append(frameLog,
                              [call |-> IF d = 0 THEN nResolve + 1 ELSE nResolve,
                               depth |-> d,
                               basic |-> IF names = <<>> THEN 0 ELSE 1,
                               enums |-> 0, composites |-> 0, domains |-> 0,
                               ranges |-> 0])
        /\ batches' = NoBatches
        /\ pending' = {}
        /\ details' = NoDetails
        /\ internalQueue' = <<>>
        /\ pc' = "basic"

\* the caches a call of DbAdapter.resolve hands to canonicaliseQueue: none, so
\* the parameter defaults (new Map()) apply
CallCache(cache) == <<>>

\* mutant: canonicaliseQueue without its return for an empty queue
ResolveCallUnchecked ==
    /\ pc = "idle"
    /\ nResolve < MaxResolve
    /\ nResolve' = nResolve + 1
    /\ batch' = queue
    /\ atCall' = heap
    /\ callLog' = <<>>
    /\ outcome' = "none"
    /\ err' = NoError
    /\ resolveCache' = CallCache(resolveCache)
    /\ canonCache' = CallCache(canonCache)
    /\ inner' = <<>>
    /\ StartFrame(queue, 0, CallCache(resolveCache))
    /\ UNCHANGED <<results, queue, heap, handles, detailLog, nEnqueue, pText, pOut, settled, extractVars>>

\* DbAdapter.resolve up to its await: canonicaliseQueue(this, this.#resolveQueue)
\* runs to its first await, or returns [] for an empty queue
ResolveCall ==
    /\ pc = "idle"
    /\ nResolve < MaxResolve
    /\ nResolve' = nResolve + 1
    /\ batch' = queue
    /\ atCall' = heap
    /\ callLog' = <<>>
    /\ outcome' = "none"
    /\ err' = NoError
    /\ resolveCache' = CallCache(resolveCache)
    /\ canonCache' = CallCache(canonCache)
    /\ inner' = <<>>
    /\ IF queue = <<>>
       THEN /\ pc' = "returned"
            /\ results' = <<>>
            /\ depth' = 0
            /\ UNCHANGED <<parsed, plain, queryCount, basicLog, frameLog, batches,
                           pending, details, internalQueue>>
       ELSE /\ StartFrame(queue, 0, CallCache(resolveCache))
            /\ UNCHANGED results
    /\ UNCHANGED <<queue, heap, handles, detailLog, nEnqueue, pText, pOut, settled, extractVars>>

\* mutant: every resolved row goes to its batch, cached or seen or not
AllRows(resolved, cc) == resolved

\* lines 70-85: the rows whose detail has to be fetched, one per canonical
\* name that is not cached, split by kind
NewRows(resolved, cc) ==
    SelectSeq([i \in 1..Len(resolved) |->
                 IF /\ resolved[i].canonical_name \notin DOMAIN cc
                    /\ \A j \in 1..(i - 1) :
                          resolved[j].canonical_name # resolved[i].canonical_name
                 THEN resolved[i] ELSE [kind |-> "skip"]],
              LAMBDA r : r.kind # "skip")

OfKind(rows, kind) == SelectSeq(rows, LAMBDA r : r.kind = kind)

\* mutant: the check for unknown kinds before the batches is gone
UnknownRowsUnchecked(resolved) == <<>>

\* line 45: resolved.filter(r => r.kind === Canonical.Kind.Unknown)
UnknownRows(resolved) == OfKind(resolved, "unknown")

\* canonCache.set(name, value) for every value of a list, in order
CacheAll(cc, values) ==
    LET names == {values[i].canonical_name : i \in 1..Len(values)}
        last(n) == CHOOSE i \in 1..Len(values) :
                      /\ values[i].canonical_name = n
                      /\ \A j \in (i + 1)..Len(values) : values[j].canonical_name # n
    IN  [n \in names |-> values[last(n)]] @@ cc

\* lines 83-84: base and pseudo types are cached without a query
Plain(rows) ==
    LET simple == SelectSeq(rows, LAMBDA r : r.kind \in {"base", "pseudo"})
    IN  [i \in 1..Len(simple) |->
           [keys |-> {"kind", "canonical_name"}, kind |-> simple[i].kind,
            canonical_name |-> simple[i].canonical_name]]

CanonicalNames(rows) == [i \in 1..Len(rows) |-> rows[i].canonical_name]

\* mutant: a kind-detail resolver that queries the catalog once per entry
QueryPerEntry(b) == [k \in DOMAIN b |-> Len(b[k])]

\* the queries the four kind-detail calls issue for the batches b: each
\* resolver returns [] without a query for an empty batch and calls db.query
\* once otherwise
DetailQueries(b) == [k \in DOMAIN b |-> IF b[k] = <<>> THEN 0 ELSE 1]

\* lines 37-97: resolveBasicInfo returns (or the query raises); the cache is
\* filled, unknown kinds raise, the batches are built and the four kind-detail
\* calls start, each issuing its query unless its batch is empty
BasicReturn ==
    /\ pc = "basic"
    /\ IF Unresolvable(plain) # {}
       THEN /\ Raise("unresolvable",
                     plain[CHOOSE i \in Unresolvable(plain) :
                              \A j \in Unresolvable(plain) : i <= j], <<>>)
            /\ UNCHANGED <<queryCount, resolveCache, canonCache, batches, pending,
                           detailLog, callLog, frameLog>>
       ELSE \E resolved \in {resolveBasicInfo(plain)} :
            \E rows \in {NewRows(resolved, canonCache)} :
            \E b \in {[enums |-> OfKind(rows, "enum"),
                        composites |-> OfKind(rows, "composite"),
                        domains |-> OfKind(rows, "domain"),
                        ranges |-> OfKind(rows, "range")]} :
            \E n \in {DetailQueries(b)} :
            LET rc == [name \in SeqRange(plain) |->
                         resolved[CHOOSE i \in 1..Len(plain) : plain[i] = name]] @@ resolveCache
                unknown == UnknownRows(resolved)
                started == {k \in DOMAIN b : n[k] > 0}
                sent == CanonicalNames(b.enums \o b.composites \o b.domains \o b.ranges)
            IN  /\ resolveCache' = rc
                /\ IF unknown # <<>>
                   THEN /\ Raise("unknown", <<>>, CanonicalNames(unknown))
                        /\ UNCHANGED <<queryCount, canonCache, batches, pending,
                                       detailLog, callLog, frameLog>>
                   ELSE /\ canonCache' = CacheAll(canonCache, Plain(rows))
                        /\ batches' = b
                        /\ pending' = started
                        /\ queryCount' = queryCount + n.enums + n.composites
                                                       + n.domains + n.ranges
                        /\ frameLog' = [frameLog EXCEPT ![Len(frameLog)] =
                                           [@ EXCEPT !.enums = n.enums,
                                                     !.composites = n.composites,
                                                     !.domains = n.domains,
                                                     !.ranges = n.ranges]]
                        /\ detailLog' = detailLog \o sent
                        /\ callLog' = callLog \o sent
                        /\ pc' = "details"
                        /\ UNCHANGED <<queue, outcome, err>>
    /\ UNCHANGED <<heap, depth, inner, parsed, plain, details, internalQueue,
                   results, handles, batch, atCall, basicLog, nEnqueue, nResolve, pText, pOut, settled, extractVars>>

\* a kind-detail call returns: its details are kept for line 92 and the
\* members it handed to q are on the follow-up queue, their placeholders
\* allocated
DetailReturn(kind, r) ==
    /\ pc = "details"
    /\ kind \in pending
    /\ pending' = pending \ {kind}
    /\ details' = [details EXCEPT ![kind] = r.details]
    /\ internalQueue' = internalQueue \o r.members
    /\ heap' = heap \o [i \in 1..Len(r.members) |-> EmptyObject]
    /\ UNCHANGED <<queue, queryCount, pc, depth, inner, parsed, plain, resolveCache,
                   canonCache, batches, results, outcome, err, handles, batch, atCall,
                   basicLog, detailLog, callLog, frameLog, nEnqueue, nResolve, pText,
                   pOut, settled, extractVars>>

EnumReturn == DetailReturn("enums", getEnumDetails(batches.enums))

CompositeReturn ==
    DetailReturn("composites", getCompositeDetails(batches.composites, Len(heap) + 1))

\* mutant: the scheduler's callback hands out the object that was next when
\* the resolve call started, whatever the other resolvers allocated since
DomainReturnStale ==
    DetailReturn("domains", getDomainDetails(batches.domains, Len(atCall) + 1))

DomainReturn == DetailReturn("domains", getDomainDetails(batches.domains, Len(heap) + 1))

RangeReturn == DetailReturn("ranges", getRangeDetails(batches.ranges, Len(heap) + 1))

\* mutant: dimensions counts the brackets of the text only
ResultBracketsOnly(p, info, exclusive) ==
    ObjectAssign([EmptyObject EXCEPT
                    !.keys = {"kind", "oid", "typrelid", "typbasetype", "rngsubtype",
                              "canonical_name", "schema", "name", "original_type",
                              "modifiers", "dimensions"},
                    !.kind = info.kind, !.oid = info.oid, !.typrelid = info.typrelid,
                    !.typbasetype = info.typbasetype, !.rngsubtype = info.rngsubtype,
                    !.canonical_name = info.canonical_name, !.schema = info.schema,
                    !.name = info.name, !.original_type = p.original,
                    !.modifiers = p.modifiers, !.dimensions = p.dimensions],
                 exclusive)

\* lines 113-138: { ...common, ...exclusive } for one queue member
Result(p, info, exclusive) ==
    LET common == [keys |-> {"kind", "oid", "typrelid", "typbasetype", "rngsubtype",
                             "canonical_name", "schema", "name", "original_type",
                             "modifiers", "dimensions"},
                   kind |-> info.kind, oid |-> info.oid, typrelid |-> info.typrelid,
                   typbasetype |-> info.typbasetype, rngsubtype |-> info.rngsubtype,
                   canonical_name |-> info.canonical_name, schema |-> info.schema,
                   name |-> info.name, original_type |-> p.original,
                   modifiers |-> p.modifiers,
                   dimensions |-> p.dimensions + info.internal_dimensions,
                   enum_values |-> <<>>, attributes |-> <<>>,
                   domain_base_type |-> 0, range_subtype |-> 0]
    IN  ObjectAssign(common, exclusive)

\* mutant: the result is built but never copied onto the placeholder
PatchNothing(h, id, result) == h

\* mutant: one descriptor per canonical name, so the result is copied onto
\* every filled placeholder of that name
PatchShared(h, id, result) ==
    [j \in DOMAIN h |->
        IF j = id \/ (h[j].keys # {} /\ h[j].canonical_name = result.canonical_name)
        THEN ObjectAssign(h[j], result) ELSE h[j]]

\* line 139: Object.assign(m.out, result) on the heap
Patch(h, id, result) == [h EXCEPT ![id] = ObjectAssign(@, result)]

\* lines 131-136: a member throws when its kind is unknown or its canonical
\* name has no detail in the cache
Throws(p, rc, cc) ==
    \/ rc[p.plain].kind = "unknown"
    \/ rc[p.plain].canonical_name \notin DOMAIN cc

\* lines 105-144: every member that does not throw is patched, also when
\* another member throws
FillAll(h, ps, q, rc, cc) ==
    LET patched(h1, i) ==
            Patch(h1, q[i].out,
                  Result(ps[i], rc[ps[i].plain], cc[rc[ps[i].plain].canonical_name]))
        upto[n \in 0..Len(ps)] ==
            IF n = 0 THEN h
            ELSE IF Throws(ps[n], rc, cc) THEN upto[n - 1] ELSE patched(upto[n - 1], n)
    IN  upto[Len(ps)]

\* lines 99-144: the details go into the cache, then every member of the
\* frame is patched; Promise.all rejects with the error of the first member
\* that threw
CacheAndFill ==
    /\ pc = "details"
    /\ pending = {}
    /\ \E cc \in {CacheAll(CacheAll(CacheAll(CacheAll(canonCache,
                     details.enums), details.composites), details.domains),
                     details.ranges)} :
       \E thrown \in {{i \in 1..Len(parsed) : Throws(parsed[i], resolveCache, cc)}} :
       LET first == CHOOSE i \in thrown : \A j \in thrown : i <= j
           info == resolveCache[parsed[first].plain]
       IN  /\ canonCache' = cc
           /\ heap' = FillAll(heap, parsed, FrameQueue, resolveCache, cc)
           /\ IF thrown = {}
              THEN /\ pc' = "filled"
                   /\ UNCHANGED <<queue, outcome, err>>
              ELSE Raise(IF info.kind = "unknown" THEN "unknown" ELSE "unreachable",
                         <<>>, <<info.canonical_name>>)
    /\ UNCHANGED <<queryCount, frameVars, resolveCache, results, handles,
                   batch, atCall, basicLog, detailLog, callLog, frameLog, nEnqueue,
                   nResolve, pText, pOut, settled, extractVars>>

\* mutant: the recursive call gets no caches, so the defaults apply again
FreshCache(cache) == <<>>

\* line 147: the caches the recursive call gets are the frame's own maps
RecursionCache(cache) == cache

\* lines 146-152: recurse on the follow-up queue with the same caches, or
\* return queue.map(m => m.out)
AfterFill ==
    /\ pc = "filled"
    /\ IF internalQueue # <<>>
       THEN /\ inner' = internalQueue
            /\ resolveCache' = RecursionCache(resolveCache)
            /\ canonCache' = RecursionCache(canonCache)
            /\ StartFrame(internalQueue, depth + 1, RecursionCache(resolveCache))
            /\ UNCHANGED results
       ELSE /\ IF depth = 0
               THEN /\ pc' = "returned"
                    /\ results' = [i \in 1..Len(queue) |-> queue[i].out]
               ELSE /\ pc' = "unwind"
                    /\ UNCHANGED results
            /\ UNCHANGED <<frameVars, queryCount, basicLog, frameLog, resolveCache,
                           canonCache>>
    /\ UNCHANGED <<queue, heap, outcome, err, handles,
                   batch, atCall, detailLog, callLog, nEnqueue, nResolve, pText, pOut, settled, extractVars>>

\* the recursive frames have returned; the outermost frame resumes after its
\* await and returns queue.map(m => m.out)
Unwind ==
    /\ pc = "unwind"
    /\ pc' = "returned"
    /\ results' = [i \in 1..Len(queue) |-> queue[i].out]
    /\ UNCHANGED <<queue, queryCount, heap, frameVars, resolveCache, canonCache,
                   outcome, err, handles, batch, atCall, basicLog, detailLog, callLog,
                   frameLog, nEnqueue, nResolve, pText, pOut, settled, extractVars>>

\* mutant: resolve leaves the queue as it is
KeepQueue == queue

\* resetQueue(): this.#resolveQueue = []
resetQueue == <<>>

\* the placeholders the resolve call in flight has filled or filled again
FilledByCall ==
    {id \in DOMAIN heap :
        /\ heap[id].keys # {}
        /\ id \in DOMAIN atCall => heap[id] # atCall[id]}

\* DbAdapter.resolve after its await: out = results[i] for every member of
\* the queue, then resetQueue()
ResolveReturn ==
    /\ pc = "returned"
    /\ pc' = "idle"
    /\ outcome' = "ok"
    /\ queue' = resetQueue
    \* the frames and the caches of the call are garbage from here on
    /\ depth' = 0
    /\ inner' = <<>>
    /\ parsed' = <<>>
    /\ plain' = <<>>
    /\ batches' = NoBatches
    /\ pending' = {}
    /\ details' = NoDetails
    /\ internalQueue' = <<>>
    /\ resolveCache' = <<>>
    /\ canonCache' = <<>>
    /\ settled' = settled \cup FilledByCall
    /\ UNCHANGED <<queryCount, heap, results, err, handles, batch, atCall, basicLog,
                   detailLog, callLog, frameLog, nEnqueue, nResolve, pText, pOut,
                   extractVars>>

Next ==
    \/ \E type \in RequestTypes : Enqueue(type)
    \/ ResolveCall
    \/ BasicReturn
    \/ EnumReturn
    \/ CompositeReturn
    \/ DomainReturn
    \/ RangeReturn
    \/ CacheAndFill
    \/ AfterFill
    \/ Unwind
    \/ ResolveReturn

Spec == Init /\ [][Next]_vars

\* the steps the resolve call in flight takes by itself: the catalog answers
\* every query and the event loop runs every continuation that is ready
EngineStep ==
    \/ BasicReturn
    \/ EnumReturn
    \/ CompositeReturn
    \/ DomainReturn
    \/ RangeReturn
    \/ CacheAndFill
    \/ AfterFill
    \/ Unwind
    \/ ResolveReturn

FairSpec == Spec /\ WF_vars(EngineStep)

\* ----------------------------------------------- the parser on its own
ParseInit ==
    /\ EngineInit
    /\ pText \in SeqsUpTo(ParserTokens, MaxLen)
    /\ pOut = NotParsed

Parse ==
    /\ pOut = NotParsed
    /\ pOut' = parseRawType(pText)
    /\ UNCHANGED <<pText, engineVars>>

ParseNext == Parse

ParseSpec == ParseInit /\ [][ParseNext]_vars

\* ------------------------------------- parsePostgresTableDefinition
\* A definition text is a sequence of tokens: the characters the parser
\* examines (space, comma, parentheses, quotes, backslash) one token each, and
\* any run of other characters one token, as no character of such a run is
\* treated differently from another.

\* what parsePostgresTableDefinition raises for a text without TABLE(
InvalidTableDefinition == [error |-> "Invalid table definition format"]

\* parseColumnDefinition raises: no whitespace outside quotes
NoColumn == [error |-> "Could not parse column definition"]

\* toLowerCase() of a token
ToLowerCase(token) == IF token = "TABLE" THEN "table" ELSE token

\* str.replace(/\\<quote>/g, quote): every backslash followed by the quote
\* becomes the quote
RECURSIVE ReplaceEscaped(_, _)
ReplaceEscaped(str, quote) ==
    IF str = <<>> THEN <<>>
    ELSE IF Len(str) >= 2 /\ str[1] = "\\" /\ str[2] = quote
         THEN <<quote>> \o ReplaceEscaped(SubSeq(str, 3, Len(str)), quote)
         ELSE <<str[1]>> \o ReplaceEscaped(Tail(str), quote)

\* unquote: a text that starts and ends with the same quote loses both and
\* has its escaped quotes replaced; substring(1, 0) of a lone quote is the
\* quote itself
unquote(str) ==
    IF str # <<>> /\ ((str[1] = "\"" /\ Last(str) = "\"") \/ (str[1] = "'" /\ Last(str) = "'"))
    THEN ReplaceEscaped(ReplaceEscaped(IF Len(str) = 1 THEN str
                                       ELSE SubSeq(str, 2, Len(str) - 1), "\""), "'")
    ELSE str

\* the loop of parseColumnDefinition from position pos (0-based, as in the
\* source): the position of the first whitespace outside quotes, or -1
RECURSIVE NameEndPos(_, _, _, _, _)
NameEndPos(columnDef, pos, inQuotes, quoteChar, escaping) ==
    IF pos >= Len(columnDef) THEN -1
    ELSE LET char == columnDef[pos + 1] IN
         IF escaping THEN NameEndPos(columnDef, pos + 1, inQuotes, quoteChar, FALSE)
         ELSE IF inQuotes
              THEN IF char = "\\"
                   THEN NameEndPos(columnDef, pos + 1, TRUE, quoteChar, TRUE)
                   ELSE NameEndPos(columnDef, pos + 1, char # quoteChar, quoteChar, FALSE)
         ELSE IF char \in {"\"", "'"}
              THEN NameEndPos(columnDef, pos + 1, TRUE, char, FALSE)
         ELSE IF char = " " THEN pos
         ELSE NameEndPos(columnDef, pos + 1, FALSE, quoteChar, FALSE)

\* parseColumnDefinition: the name is the text before the first whitespace
\* outside quotes, unquoted; the type is everything after it
parseColumnDefinition(columnDef) ==
    LET nameEndPos == NameEndPos(columnDef, 0, FALSE, "", FALSE) IN
    IF nameEndPos = -1 THEN NoColumn
    ELSE [name |-> unquote(Trim(SubSeq(columnDef, 1, nameEndPos))),
          type |-> Trim(SubSeq(columnDef, nameEndPos + 1, Len(columnDef)))]

\* mutant: parentheses are not tracked
NoParenLevel(char, parenLevel) == 0

\* lines 65-70: the nesting level after char
ParenLevel(char, parenLevel) ==
    IF char = "(" THEN parenLevel + 1
    ELSE IF char = ")" THEN parenLevel - 1
    ELSE parenLevel

\* lines 33-87, the loop over columnsDefinition with its virtual comma at the
\* end; s holds the loop's variables under their names in the source
RECURSIVE ScanColumns(_, _)
ScanColumns(columnsDefinition, s) ==
    IF s.currentPos > Len(columnsDefinition) THEN s.columns
    ELSE LET char == IF s.currentPos = Len(columnsDefinition) THEN ","
                     ELSE columnsDefinition[s.currentPos + 1]
             next == [s EXCEPT !.currentPos = @ + 1]
         IN
         IF s.escaping THEN ScanColumns(columnsDefinition, [next EXCEPT !.escaping = FALSE])
         ELSE IF s.inQuotes
              THEN IF char = "\\"
                   THEN ScanColumns(columnsDefinition, [next EXCEPT !.escaping = TRUE])
                   ELSE ScanColumns(columnsDefinition,
                                    [next EXCEPT !.inQuotes = (char # s.quoteChar)])
         ELSE IF char \in {"\"", "'"}
              THEN ScanColumns(columnsDefinition,
                               [next EXCEPT !.inQuotes = TRUE, !.quoteChar = char])
         ELSE LET level == ParenLevel(char, s.parenLevel)
                  columnDef == Trim(SubSeq(columnsDefinition, s.columnStart + 1,
                                           s.currentPos))
                  column == parseColumnDefinition(columnDef)
              IN
              IF char = "," /\ level = 0 /\ s.currentPos >= s.columnStart
              THEN ScanColumns(columnsDefinition,
                       [next EXCEPT !.parenLevel = level,
                                    !.columnStart = s.currentPos + 1,
                                    !.columns = IF columnDef = <<>> \/ column = NoColumn
                                                THEN @ ELSE Append(@, column)])
              ELSE ScanColumns(columnsDefinition, [next EXCEPT !.parenLevel = level])

\* lines 11-19: the text must start, after trimming and in any case, with
\* TABLE( ; the regular expression takes what lies between that parenthesis
\* and a closing one that is the last character of the text, without the
\* whitespace around it, and nothing if the text does not end so
parsePostgresTableDefinition(tableDefinition) ==
    LET trimmed == Trim(tableDefinition)
        open == Len(tableDefinition) - Len(TrimStart(tableDefinition)) + 2
    IN
    IF ~(Len(trimmed) >= 2 /\ ToLowerCase(trimmed[1]) = "table" /\ trimmed[2] = "(")
    THEN InvalidTableDefinition
    ELSE IF Last(tableDefinition) # ")" \/ Len(tableDefinition) = open
         THEN <<>>
         ELSE LET columnsDefinition ==
                      Trim(SubSeq(tableDefinition, open + 1, Len(tableDefinition) - 1))
              IN  IF columnsDefinition = <<>> THEN <<>>
                  ELSE ScanColumns(columnsDefinition,
                                   [currentPos |-> 0, columnStart |-> 0, parenLevel |-> 0,
                                    inQuotes |-> FALSE, quoteChar |-> "", escaping |-> FALSE,
                                    columns |-> <<>>])

\* The column names of the definitions checked: plain, quoted, quoted with a
\* space, with an escaped quote, with a comma and with a parenthesis.
ColumnNames ==
    { [quoted |-> FALSE, name |-> <<"id">>],
      [quoted |-> TRUE,  name |-> <<"id">>],
      [quoted |-> TRUE,  name |-> <<"User", " ", "Name">>],
      [quoted |-> TRUE,  name |-> <<"quoted", "\"", "identifier">>],
      [quoted |-> TRUE,  name |-> <<"a", ",", "b">>],
      [quoted |-> TRUE,  name |-> <<"f", "(", "x">>] }

\* The column types: plain, with modifiers, with modifiers and brackets,
\* schema-qualified and quoted, and of several words.
ColumnTypes ==
    { <<"integer">>,
      <<"decimal", "(", "10", ",", "2", ")">>,
      <<"varchar", "(", "255", ")", "[]">>,
      <<"\"", "schema", "\"", ".", "\"", "type", "\"">>,
      <<"timestamp", "(", "3", ")", " ", "with", " ", "time", " ", "zone">> }

Columns == [quoted : BOOLEAN, name : {c.name : c \in ColumnNames}, type : ColumnTypes]

\* a quote inside a quoted name is written with a backslash before it
RECURSIVE Escaped(_)
Escaped(name) ==
    IF name = <<>> THEN <<>>
    ELSE (IF name[1] = "\"" THEN <<"\\", "\"">> ELSE <<name[1]>>) \o Escaped(Tail(name))

\* a column as it is written in a definition
ColumnText(c) ==
    (IF c.quoted THEN <<"\"">> \o Escaped(c.name) \o <<"\"">> ELSE c.name)
        \o <<" ">> \o c.type

\* the definition TABLE(...) of a non-empty list of columns
RECURSIVE JoinColumns(_, _)
JoinColumns(cols, separator) ==
    IF Len(cols) = 1 THEN ColumnText(cols[1])
    ELSE ColumnText(cols[1]) \o separator \o JoinColumns(Tail(cols), separator)

TableText(head, cols, separator) == <<head, "(">> \o JoinColumns(cols, separator) \o <<")">>

ColumnLists ==
    {cols \in SeqsUpTo({c \in Columns : [quoted |-> c.quoted, name |-> c.name] \in ColumnNames},
                       MaxColumns) : cols # <<>>}

Separators == { <<",">>, <<",", " ">> }

TableHeads == {"TABLE", "table"}

\* the texts given to parsePostgresTableDefinition, each with the columns it
\* was written from: the definitions of the column lists, a definition
\* without columns and a text that is no table definition
TableInit ==
    /\ EngineInit
    /\ pText \in {[definition |-> TableText(head, cols, sep), columns |-> cols] :
                     head \in TableHeads, cols \in ColumnLists, sep \in Separators}
                \cup {[definition |-> <<"TABLE", "(", ")">>, columns |-> <<>>],
                      [definition |-> <<"SETOF", " ", "integer">>, columns |-> <<>>]}
    /\ pOut = NotParsed

ParseTable ==
    /\ pOut = NotParsed
    /\ pOut' = parsePostgresTableDefinition(pText.definition)
    /\ UNCHANGED <<pText, engineVars>>

TableNext == ParseTable

TableSpec == TableInit /\ [][TableNext]_vars

\* ------------------------------------------- Extractor.extractSchemas
\* The types fetchTypes can return: a domain, whose populator enqueues the
\* domain's own name, and materialized views, whose populator enqueues the
\* defined type of every column.  The multirange column is of a category the
\* engine does not support.
ExtractableTypes ==
    { [kind |-> "domain", name |-> "public.d1", columns |-> <<>>],
      [kind |-> "materializedView", name |-> "public.mv_person",
       columns |-> << <<"public.person">> >>],
      [kind |-> "materializedView", name |-> "public.mv_span",
       columns |-> << <<"public.span">> >>],
      [kind |-> "materializedView", name |-> "public.mv_mr",
       columns |-> << <<"public.mr">> >>] }

\* the lists of types an extraction can find: no type twice, and no more
\* types than the session enqueues
TypeLists ==
    {ts \in SeqsUpTo(ExtractableTypes, MaxEnqueue) :
        \A i, j \in 1..Len(ts) : i # j => ts[i] # ts[j]}

\* what an extractor step leaves alone in the adapter and the engine
engineRest == <<pc, frameVars, resolveCache, canonCache, results, outcome, err, batch,
                atCall, basicLog, detailLog, callLog, frameLog, nResolve, settled,
                pText, pOut>>

\* db.enqueue(type) for every type of a list, in order
EnqueueAll(types) ==
    /\ heap' = heap \o [j \in 1..Len(types) |-> EmptyObject]
    /\ queue' = queue \o [j \in 1..Len(types) |-> QueueMember(types[j], Len(heap) + j)]
    /\ handles' = handles \o [j \in 1..Len(types) |-> Len(heap) + j]
    /\ nEnqueue' = nEnqueue + Len(types)

\* extractSchemas is called: db.connect() resets the adapter
ExtractCall ==
    /\ xpc = "off"
    /\ pc = "idle"
    /\ xpc' = "connect"
    /\ queue' = resetQueue
    /\ queryCount' = 0
    /\ UNCHANGED <<heap, handles, nEnqueue, engineRest, typesToExtract, populators,
                   progress, extracted>>

\* connect has returned: the query for the schema names is sent
NamespaceQuery ==
    /\ xpc = "connect"
    /\ xpc' = "namespaces"
    /\ queryCount' = queryCount + 1
    /\ UNCHANGED <<queue, heap, handles, nEnqueue, engineRest, typesToExtract,
                   populators, progress, extracted>>

\* the schema names arrive: the query failed or a requested schema is
\* missing, or fetchTypes is called and sends its first query
NamespacesReturn ==
    /\ xpc = "namespaces"
    /\ \E ok \in BOOLEAN :
          /\ xpc' = IF ok THEN "types" ELSE "failed"
          /\ queryCount' = IF ok THEN queryCount + 1 ELSE queryCount
    /\ UNCHANGED <<queue, heap, handles, nEnqueue, engineRest, typesToExtract,
                   populators, progress, extracted>>

\* mutant: the total counts a type of an unsupported kind that is skipped
ProgressTotalFiltered(types) == Len(types) + 1

\* typesToExtract.length, the argument of onProgressStart
ProgressTotal(types) == Len(types)

\* fetchTypes returns after its four other queries (or one of them fails):
\* onProgressStart(typesToExtract.length), then every populator runs up to
\* its first await.  extractDomain enqueues and returns, extractMaterializedView
\* sends its column query.
FetchTypesReturn ==
    /\ xpc = "types"
    /\ \E ok \in BOOLEAN :
          IF ~ok
          THEN /\ xpc' = "failed"
               /\ UNCHANGED <<queue, queryCount, heap, handles, nEnqueue,
                              typesToExtract, populators, progress>>
          ELSE \E types \in TypeLists :
               /\ xpc' = "populating"
               /\ typesToExtract' = types
               /\ progress' = Append(progress, [call |-> "onProgressStart",
                                                total |-> ProgressTotal(types),
                                                type |-> 0])
               /\ populators' = [i \in 1..Len(types) |->
                                   IF types[i].kind = "domain" THEN "done" ELSE "columns"]
               /\ EnqueueAll(Concat([i \in 1..Len(types) |->
                                       IF types[i].kind = "domain"
                                       THEN << <<types[i].name>> >> ELSE <<>>]))
               /\ queryCount' = queryCount + 4
                                   + Cardinality({i \in 1..Len(types) :
                                                    types[i].kind # "domain"})
    /\ UNCHANGED <<engineRest, extracted>>

\* extractMaterializedView after its column query: every column type is
\* enqueued and the second query is sent, or the query failed
ColumnsReturn(i) ==
    /\ populators[i] = "columns"
    /\ \E ok \in BOOLEAN :
          IF ok
          THEN /\ EnqueueAll(typesToExtract[i].columns)
               /\ queryCount' = queryCount + 1
               /\ populators' = [populators EXCEPT ![i] = "info"]
          ELSE /\ populators' = [populators EXCEPT ![i] = "failed"]
               /\ UNCHANGED <<queue, queryCount, heap, handles, nEnqueue>>
    /\ UNCHANGED <<engineRest, xpc, typesToExtract, progress, extracted>>

\* extractMaterializedView after its second query: it returns, or it throws
\* because the query failed or returned no row
InfoReturn(i) ==
    /\ populators[i] = "info"
    /\ \E ok \in BOOLEAN :
          populators' = [populators EXCEPT ![i] = IF ok THEN "done" ELSE "failed"]
    /\ UNCHANGED <<queue, queryCount, heap, handles, nEnqueue, engineRest, xpc,
                   typesToExtract, progress, extracted>>

\* the wrapper of a populator after its await: options.onProgress()
OnProgress(i) ==
    /\ populators[i] = "done"
    /\ populators' = [populators EXCEPT ![i] = "reported"]
    /\ progress' = Append(progress, [call |-> "onProgress", total |-> 0, type |-> i])
    /\ UNCHANGED <<queue, queryCount, heap, handles, nEnqueue, engineRest, xpc,
                   typesToExtract, extracted>>

\* mutant: the extraction goes on as soon as one wrapper has returned
AnySettled(p) == \E i \in 1..Len(p) : p[i] = "reported"

\* Promise.all resolves when every wrapper has returned
AllSettled(p) == \A i \in 1..Len(p) : p[i] = "reported"

\* Promise.all rejects when a populator has thrown: extractSchemas throws
PopulatorsRejected ==
    /\ xpc = "populating"
    /\ nResolve = 0
    /\ \E i \in 1..Len(populators) : populators[i] = "failed"
    /\ xpc' = "failed"
    /\ UNCHANGED <<queue, queryCount, heap, handles, nEnqueue, engineRest,
                   typesToExtract, populators, progress, extracted>>

\* Promise.all has resolved: the schemas are built and db.resolve() is
\* called; extractSchemas waits for it
ExtractResolve ==
    /\ xpc = "populating"
    /\ nResolve = 0
    /\ AllSettled(populators)
    /\ ResolveCall

\* db.resolve() has raised: extractSchemas throws
ResolveRejected ==
    /\ xpc = "populating"
    /\ nResolve > 0
    /\ pc = "idle" /\ outcome = "error"
    /\ xpc' = "failed"
    /\ UNCHANGED <<queue, queryCount, heap, handles, nEnqueue, engineRest,
                   typesToExtract, populators, progress, extracted>>

\* db.resolve() has returned: queryCount is read, onProgressEnd() is called
\* and db.close() resets the adapter
AfterResolve ==
    /\ xpc = "populating"
    /\ nResolve > 0
    /\ pc = "idle" /\ outcome = "ok"
    /\ xpc' = "closing"
    /\ extracted' = [queryCount |-> queryCount]
    /\ progress' = Append(progress, [call |-> "onProgressEnd", total |-> 0, type |-> 0])
    /\ queue' = resetQueue
    /\ queryCount' = 0
    /\ UNCHANGED <<heap, handles, nEnqueue, engineRest, typesToExtract, populators>>

\* close has returned: { schemas, queryCount } goes to the caller
ExtractReturn ==
    /\ xpc = "closing"
    /\ xpc' = "returned"
    /\ UNCHANGED <<queue, queryCount, heap, handles, nEnqueue, engineRest,
                   typesToExtract, populators, progress, extracted>>

ExtractNext ==
    \/ ExtractCall
    \/ NamespaceQuery
    \/ NamespacesReturn
    \/ FetchTypesReturn
    \/ \E i \in 1..Len(populators) : ColumnsReturn(i)
    \/ \E i \in 1..Len(populators) : InfoReturn(i)
    \/ \E i \in 1..Len(populators) : OnProgress(i)
    \/ PopulatorsRejected
    \/ ExtractResolve
    \/ ResolveRejected
    \/ AfterResolve
    \/ ExtractReturn
    \/ BasicReturn
    \/ EnumReturn
    \/ CompositeReturn
    \/ DomainReturn
    \/ RangeReturn
    \/ CacheAndFill
    \/ AfterFill
    \/ Unwind
    \/ ResolveReturn

ExtractSpec == Init /\ [][ExtractNext]_vars

\* ============================================================== properties
Filled(id) == heap[id].keys # {}

\* the placeholders an object refers to
Children(id) ==
    {heap[id].attributes[j].type : j \in 1..Len(heap[id].attributes)}
      \cup (IF "domain_base_type" \in heap[id].keys THEN {heap[id].domain_base_type} ELSE {})
      \cup (IF "range_subtype" \in heap[id].keys THEN {heap[id].range_subtype} ELSE {})

\* every placeholder reachable from a set of placeholders
Reachable(ids) ==
    LET step[n \in 0..Len(heap)] ==
            IF n = 0 THEN ids
            ELSE step[n - 1] \cup UNION {Children(id) : id \in step[n - 1]}
    IN  step[Len(heap)]

\* the placeholders of the members that were queued when resolve was called
BatchOut == {batch[i].out : i \in 1..Len(batch)}

Returned == pc = "idle" /\ outcome = "ok"

Failed == pc = "idle" /\ outcome = "error"

\* C1: after enqueue calls and a resolve call that returns without error, the
\* value resolve returns holds, member by member, the very objects enqueue
\* returned; each of them carries kind, canonical_name, schema, name,
\* dimensions and original_type, and so does every placeholder reachable from
\* them through attribute types, domain_base_type and range_subtype.
C1_GraphFilled ==
    Returned =>
        /\ \A i \in 1..Len(batch) :
              /\ results[i] = batch[i].out
              /\ batch[i].out \in SeqRange(handles)
        /\ \A id \in Reachable(BatchOut) :
              /\ id \in DOMAIN heap
              /\ {"kind", "canonical_name", "schema", "name", "dimensions",
                  "original_type"} \subseteq heap[id].keys

\* a successful call on a composite whose attributes have been filled two
\* levels down
C1_Witness ==
    /\ Returned
    /\ \E id \in BatchOut :
          /\ heap[id].canonical_name = "public.person"
          /\ Len(heap[id].attributes) = 3
          /\ \E j \in 1..3 :
                /\ heap[heap[id].attributes[j].type].kind = "composite"
                /\ Filled(heap[heap[id].attributes[j].type].attributes[1].type)

\* C2 as stated: whenever resolve raises, at whatever depth, every placeholder
\* of the batch is still the empty object.
C2_NoMutationOnAnyError ==
    Failed => \A id \in BatchOut : heap[id] = EmptyObject

\* C2 amended: when resolve raises for a request the caller enqueued itself
\* (depth 0) because its name does not resolve or its kind is unknown, the
\* call has mutated no placeholder of the batch: each is as it was when the
\* call started.
C2_NoMutationOnTopLevelError ==
    (Failed /\ err.depth = 0 /\ err.kind \in {"unresolvable", "unknown"})
        => \A id \in BatchOut : heap[id] = atCall[id]

\* a failed call for an unresolvable name with another member in the batch
C2_Witness ==
    /\ Failed
    /\ err.depth = 0
    /\ err.kind = "unresolvable"
    /\ err.text = <<"public.does_not_exist">>
    /\ Len(batch) = 2
    /\ \E i \in 1..2 : batch[i].type = <<"public.person">>

\* C3: a placeholder filled for a range type R has a range_subtype that is
\* filled with the descriptor of the subtype pg_range records for R, never
\* with the descriptor of R itself.
C3_RangeSubtype ==
    Returned =>
        \A id \in Reachable(BatchOut) :
            heap[id].kind = "range" =>
                /\ Filled(heap[id].range_subtype)
                /\ heap[heap[id].range_subtype].oid = PgType[heap[id].oid].rngsubtype
                /\ heap[heap[id].range_subtype].canonical_name # heap[id].canonical_name

\* C4 as stated: for a type text name(mods)[]...[] with k >= 1 trailing bracket
\* pairs, parseRawType returns plain = name, modifiers = mods and
\* dimensions = k.
C4_ModifiersThenBrackets ==
    (/\ pOut # NotParsed
     /\ Len(pText) >= 6
     /\ pText[1] \notin {"(", ")", "[", "]", " "}
     /\ pText[2] = "("
     /\ pText[3] \notin {"(", ")", "[", "]", " "}
     /\ pText[4] = ")"
     /\ (Len(pText) - 4) % 2 = 0
     /\ \A i \in 5..Len(pText) : pText[i] = (IF i % 2 = 1 THEN "[" ELSE "]"))
        => /\ pOut.plain = <<pText[1]>>
           /\ pOut.modifiers = <<pText[3]>>
           /\ pOut.dimensions = (Len(pText) - 4) \div 2

\* the number of "[]" pairs a type text ends with
TrailingPairs(text) ==
    LET ks == {k \in 0..(Len(text) \div 2) :
                  \A i \in 1..k : /\ text[Len(text) - 2 * i + 1] = "["
                                   /\ text[Len(text) - 2 * i + 2] = "]"}
    IN  CHOOSE k \in ks : \A j \in ks : j <= k

\* the generated array wrappers between a catalog type and its element type
RECURSIVE WrapperHops(_)
WrapperHops(oid) ==
    IF PgType[oid].typelem # 0 /\ SubSeq(PgType[oid].typname, 1, 1) = "_"
    THEN 1 + WrapperHops(PgType[oid].typelem)
    ELSE 0

\* C5: the dimensions of a filled placeholder are the trailing "[]" pairs of
\* its request text plus the array-wrapper hops the catalog follows from the
\* request's plain name; a request without brackets for an internal array
\* type has dimensions > 0 and carries the name of the element type.
C5_DimensionsSum ==
    \A id \in DOMAIN heap :
        "dimensions" \in heap[id].keys =>
            LET text == heap[id].original_type
                typ == Regtype(parseRawType(text).plain)
            IN  /\ heap[id].dimensions = TrailingPairs(text) + WrapperHops(typ)
                /\ (TrailingPairs(text) = 0 /\ WrapperHops(typ) > 0) =>
                       /\ heap[id].dimensions > 0
                       /\ heap[id].oid = PgType[typ].typelem
                       /\ heap[id].name = PgType[PgType[typ].typelem].typname

\* filled placeholders for "_mood" (no brackets, one hop), for a text with one
\* bracket pair, and for an attribute of type text[]
C5_Witness ==
    /\ \E id \in DOMAIN heap :
          /\ heap[id].original_type = <<"_mood">>
          /\ heap[id].dimensions = 1
          /\ heap[id].name = "mood"
    /\ \E id \in DOMAIN heap :
          /\ heap[id].original_type = <<"text", "[", "]">>
          /\ heap[id].dimensions = 1

\* C6: after resolve returns, the domain_base_type of a domain is filled with
\* the descriptor of the first non-domain type of its chain; its kind is
\* never domain.
C6_UltimateBase ==
    Returned =>
        \A id \in Reachable(BatchOut) :
            heap[id].kind = "domain" =>
                /\ Filled(heap[id].domain_base_type)
                /\ heap[heap[id].domain_base_type].kind # "domain"
                /\ PgType[heap[heap[id].domain_base_type].oid].typtype # "d"

\* a domain over a domain (public.d2 over public.d1 over text) resolved to text
C6_Witness ==
    /\ Returned
    /\ \E id \in BatchOut :
          /\ heap[id].canonical_name = "public.d2"
          /\ PgType[PgType[heap[id].oid].typbasetype].typtype = "d"
          /\ heap[heap[id].domain_base_type].canonical_name = "pg_catalog.text"

\* the canonical names of the enums of the catalog that have no label
ZeroLabelEnums ==
    {QualifiedName(o) : o \in {t \in Oids : PgType[t].typtype = "e" /\ PgEnum(t) = <<>>}}

\* C7 as stated: when a resolve call that sent an enum without labels to
\* getEnumDetails has ended, it has raised an error that names that enum, and
\* no enum placeholder carries a missing label list or the labels of another
\* enum.
C7_ZeroLabelEnumRaises ==
    (pc = "idle" /\ outcome # "none" /\ SeqRange(callLog) \cap ZeroLabelEnums # {})
        => /\ outcome = "error"
           /\ SeqRange(err.names) \cap ZeroLabelEnums # {}
           /\ \A id \in DOMAIN heap :
                 heap[id].kind = "enum" =>
                    /\ "enum_values" \in heap[id].keys
                    /\ heap[id].enum_values = PgEnum(heap[id].oid)

\* the composites of a batch for which the attribute query returns no row
AttributeLess(entries) ==
    {i \in 1..Len(entries) : PgAttribute(entries[i].typrelid) = <<>>}

\* C8 as stated: getCompositeDetails does not return when the attribute query
\* gave fewer rows than there are entries; the resolve call raises naming the
\* composite without a row, and nothing has been enqueued or cached for the
\* batch by then.
C8_CompositeMismatchRaises ==
    /\ (pc = "details" /\ "composites" \notin pending)
          => Len(details.composites) = Len(batches.composites)
    /\ (Failed /\ AttributeLess(batches.composites) # {})
          => /\ \E i \in AttributeLess(batches.composites) :
                   batches.composites[i].canonical_name \in SeqRange(err.names)
             /\ internalQueue = <<>>
             /\ \A i \in 1..Len(batches.composites) :
                   batches.composites[i].canonical_name \notin DOMAIN canonCache

\* the kind-specific part of a filled placeholder
Payload(id) ==
    [kind |-> heap[id].kind, enum_values |-> heap[id].enum_values,
     attributes |-> heap[id].attributes,
     domain_base_type |-> heap[id].domain_base_type,
     range_subtype |-> heap[id].range_subtype]

NoDuplicates(s) == \A i, j \in 1..Len(s) : s[i] = s[j] => i = j

\* C9: within one resolve call, all depths together, no canonical name is sent
\* to a kind-detail query twice, and when the call has returned all the
\* placeholders with one canonical name carry the same detail payload.
C9_OneDetailLookupPerCall ==
    /\ NoDuplicates(callLog)
    /\ Returned =>
          \A a, b \in Reachable(BatchOut) :
              heap[a].canonical_name = heap[b].canonical_name => Payload(a) = Payload(b)

\* a call that returned for "_mood" and a composite that reaches public.mood
\* twice more: three placeholders, one lookup
C9_Witness ==
    /\ Returned
    /\ Cardinality({i \in 1..Len(callLog) : callLog[i] = "public.mood"}) = 1
    /\ Cardinality({id \in Reachable(BatchOut) :
                       heap[id].canonical_name = "public.mood"}) >= 3
    /\ \E i \in 1..Len(batch) : batch[i].type = <<"_mood">>

\* C10 as stated: over the whole session, whatever the number of resolve
\* calls, no plain name is sent to the basic-info query twice and no canonical
\* name is sent to a kind-detail query twice.
C10_CachesSharedAcrossCalls ==
    /\ NoDuplicates(basicLog)
    /\ NoDuplicates(detailLog)

\* the queries one frame issued
FrameTotal(f) == f.basic + f.enums + f.composites + f.domains + f.ranges

\* the queries the first n frames of the session issued
IssuedUpTo(n) ==
    LET sum[k \in 0..n] == IF k = 0 THEN 0 ELSE sum[k - 1] + FrameTotal(frameLog[k])
    IN  sum[n]

\* C11: every recursion depth of a resolve call is one frame, which issues at
\* most one basic-info query (none when no plain name is new) and at most one
\* query per kind (none for an empty batch), whatever the number of requests;
\* queryCount grows by nothing else, so by at most 5 per depth.
C11_QueriesPerDepth ==
    /\ \A i \in 1..Len(frameLog) :
          /\ frameLog[i].basic <= 1 /\ frameLog[i].enums <= 1
          /\ frameLog[i].composites <= 1 /\ frameLog[i].domains <= 1
          /\ frameLog[i].ranges <= 1
          /\ FrameTotal(frameLog[i]) <= 5
          /\ \A j \in 1..Len(frameLog) :
                (frameLog[j].call = frameLog[i].call /\ frameLog[j].depth = frameLog[i].depth)
                    => i = j
    /\ queryCount = IssuedUpTo(Len(frameLog))
    /\ pc \in {"basic", "details", "filled"} =>
          (frameLog[Len(frameLog)].basic = 0 <=> plain = <<>>)
    /\ pc \in {"details", "filled"} =>
          \A k \in DOMAIN batches : frameLog[Len(frameLog)][k] = 0 <=> batches[k] = <<>>

\* a call for public.person that returned: depth 1 had three requests, one
\* basic-info query, one enum and one composite query; depth 2 found every
\* name cached and issued no query
C11_Witness ==
    /\ Returned
    /\ \E m \in 1..Len(batch) : batch[m].type = <<"public.person">>
    /\ \E i, j \in 1..Len(frameLog) :
          /\ frameLog[i].call = nResolve /\ frameLog[i].depth = 1
          /\ frameLog[i].basic = 1 /\ frameLog[i].enums = 1
          /\ frameLog[i].composites = 1
          /\ frameLog[j].call = nResolve /\ frameLog[j].depth = 2
          /\ FrameTotal(frameLog[j]) = 0

\* the catalog types the detail of a type refers to: the attribute types of a
\* composite, the base of a domain, the subtype of a range
Dependencies(oid) ==
    CASE PgType[oid].typtype = "c" ->
            {TypeResolution(Regtype(parseRawType(a.type_name).plain), 1).oid :
                a \in SeqRange(PgAttribute(PgType[oid].typrelid))}
      [] PgType[oid].typtype = "d" -> {PgType[oid].typbasetype}
      [] PgType[oid].typtype = "r" -> {PgType[oid].rngsubtype}
      [] OTHER -> {}

\* the longest dependency path that starts at a type
RECURSIVE GraphDepth(_)
GraphDepth(oid) ==
    IF Dependencies(oid) = {} THEN 0
    ELSE LET ds == {GraphDepth(o) : o \in Dependencies(oid)}
         IN  1 + CHOOSE d \in ds : \A e \in ds : e <= d

GraphDepths == [oid \in Oids |-> GraphDepth(oid)]

\* the depth of the dependency graph below the requests of the call
BatchDepth ==
    LET typ(m) == Regtype(parseRawType(m.type).plain)
        ds == {0} \cup {GraphDepths[TypeResolution(typ(m), 1).oid] :
                           m \in {x \in SeqRange(batch) : typ(x) # 0}}
    IN  CHOOSE d \in ds : \A e \in ds : e <= d

\* C12: the catalog has no composite that contains itself and its domain and
\* range chains are finite; every resolve call ends, it never goes deeper than
\* the dependency graph below its requests, and its follow-up queue is empty
\* when it returns.
C12_Terminates ==
    /\ [](depth <= BatchDepth)
    /\ [](pc \in {"unwind", "returned"} => internalQueue = <<>>)
    /\ (pc # "idle") ~> (pc = "idle")

\* a call about to return from the deepest level of its dependency graph
C12_Witness ==
    /\ pc = "unwind"
    /\ depth = 2
    /\ depth = BatchDepth
    /\ inner # <<>>

\* the placeholders of the members in the adapter's queue
QueueOut == {queue[i].out : i \in 1..Len(queue)}

\* C13 as stated: once a placeholder is filled, no step of any call changes
\* any of its fields or replaces its nested placeholders.
C13_FilledNeverChanges ==
    [][\A id \in DOMAIN heap : Filled(id) => heap'[id] = heap[id]]_vars

\* two descriptors that differ at most in which objects their nested
\* placeholders are
SameFields(a, b) ==
    /\ [a EXCEPT !.attributes = <<>>, !.domain_base_type = 0, !.range_subtype = 0]
         = [b EXCEPT !.attributes = <<>>, !.domain_base_type = 0, !.range_subtype = 0]
    /\ Len(a.attributes) = Len(b.attributes)
    /\ \A j \in 1..Len(a.attributes) :
          /\ a.attributes[j].name = b.attributes[j].name
          /\ a.attributes[j].index = b.attributes[j].index
    /\ (a.domain_base_type = 0) = (b.domain_base_type = 0)
    /\ (a.range_subtype = 0) = (b.range_subtype = 0)

\* C13 amended: a filled placeholder changes only when the outermost frame of
\* a resolve call fills a member that is still in the queue, which happens
\* only in a call that follows a failed one (a call that follows a successful
\* one, or none, starts with no filled placeholder in its queue); the fields
\* then keep their values, and the nested placeholders are replaced by new
\* objects.  No other step changes a filled placeholder.
C13_FilledChangesOnlyOnRetry ==
    [][/\ \A id \in DOMAIN heap :
             Filled(id) =>
                \/ heap'[id] = heap[id]
                \/ /\ pc = "details" /\ depth = 0 /\ id \in QueueOut
                   /\ SameFields(heap[id], heap'[id])
       /\ (pc = "idle" /\ pc' # "idle" /\ outcome # "error") =>
             \A id \in QueueOut : ~Filled(id)]_vars

\* the second of two failed calls has filled a composite again: the fields
\* are the same, the attribute's placeholder is another object
C13_Witness ==
    /\ Failed
    /\ nResolve = 2
    /\ \E id \in BatchOut :
          /\ Filled(id) /\ atCall[id].keys # {}
          /\ heap[id] # atCall[id]
          /\ SameFields(atCall[id], heap[id])

\* the last resolve call found the queue empty and has not failed
EmptyCall == nResolve > 0 /\ batch = <<>> /\ pc \in {"returned", "idle"}

\* C14: a resolve call on an empty queue starts no frame and issues no query,
\* leaves every placeholder as it was, returns an empty list without error,
\* and the queue is empty when it returns.
C14_EmptyResolveNoOp ==
    /\ [](EmptyCall =>
            /\ \A i \in 1..Len(frameLog) : frameLog[i].call # nResolve
            /\ queryCount = IssuedUpTo(Len(frameLog))
            /\ \A id \in DOMAIN atCall : heap[id] = atCall[id]
            /\ outcome # "error"
            /\ results = <<>>)
    /\ [][(EmptyCall /\ pc = "returned" /\ pc' = "idle") =>
             (queue' = <<>> /\ outcome' = "ok" /\ queryCount' = queryCount
                /\ heap' = heap)]_vars

\* a second resolve directly after a successful one that filled a placeholder
C14_Witness ==
    /\ EmptyCall
    /\ Returned
    /\ nResolve = 2
    /\ queryCount > 0
    /\ \E id \in DOMAIN heap : Filled(id)
    /\ queue = <<>>

\* C15: an enqueue call allocates one new empty object, distinct from every
\* object that existed before, returns it, appends exactly one member holding
\* it to the queue, and changes neither queryCount, nor any object that
\* existed before, nor the position of a resolve call in flight.
C15_EnqueueFrame ==
    [][nEnqueue' # nEnqueue =>
         /\ Len(heap') = Len(heap) + 1
         /\ heap'[Len(heap')] = EmptyObject
         /\ \A id \in DOMAIN heap : heap'[id] = heap[id]
         /\ Len(queue') = Len(queue) + 1
         /\ SubSeq(queue', 1, Len(queue)) = queue
         /\ queue'[Len(queue')].out = Len(heap')
         /\ handles' = Append(handles, queue'[Len(queue')].out)
         /\ queue'[Len(queue')].out \notin DOMAIN heap
         /\ \A i \in 1..Len(handles) : handles[i] # queue'[Len(queue')].out
         /\ queryCount' = queryCount
         /\ frameLog' = frameLog
         /\ pc' = pc
         /\ <<resolveCache, canonCache, results, outcome>>'
              = <<resolveCache, canonCache, results, outcome>>]_vars

\* an enqueue call after a resolve call that sent queries and filled a placeholder
C15_Witness ==
    /\ pc = "idle"
    /\ nEnqueue >= 2
    /\ Len(queue) = 1
    /\ heap[queue[1].out] = EmptyObject
    /\ queue[1].out = handles[Len(handles)]
    /\ queryCount > 0
    /\ \E i \in 1..(Len(handles) - 1) : Filled(handles[i])

\* C16: when a resolve call has failed, every placeholder that an earlier,
\* successful resolve call filled has exactly the fields it had when the
\* failing call started.
C16_SettledSurviveFailure ==
    Failed => \A id \in settled : id \in DOMAIN atCall /\ heap[id] = atCall[id]

\* a resolve call that filled placeholders of its own batch and then failed,
\* after an earlier call had succeeded
C16_Witness ==
    /\ Failed
    /\ nResolve = 2
    /\ settled # {}
    /\ err.depth >= 1
    /\ \E id \in BatchOut : Filled(id) /\ atCall[id] = EmptyObject

\* the positions of the plain names of the frame in flight whose catalog
\* category is none of b, c, d, e, p, r
UnknownAt ==
    {i \in 1..Len(plain) :
        PgType[Regtype(plain[i])].typtype \notin {"b", "c", "d", "e", "p", "r"}}

\* C17: when the basic-info query of a frame returns a type of kind Unknown,
\* that step raises an error listing the canonical names of the unknown types,
\* and it sends no kind-detail query and patches no placeholder; the failed
\* frame has issued no kind-detail query and its members are as they were when
\* the frame started.
C17_UnknownRaisesFirst ==
    /\ [][(pc = "basic" /\ pc' # "basic" /\ Unresolvable(plain) = {} /\ UnknownAt # {}) =>
             /\ pc' = "idle" /\ outcome' = "error"
             /\ err'.kind = "unknown"
             /\ err'.depth = depth
             /\ Len(err'.names) = Cardinality(UnknownAt)
             /\ \A i \in UnknownAt :
                   \E j \in 1..Len(err'.names) :
                      err'.names[j] = resolveBasicInfo(plain)[i].canonical_name
             /\ queryCount' = queryCount
             /\ detailLog' = detailLog
             /\ heap' = heap]_vars
    /\ []((Failed /\ err.kind = "unknown") =>
             /\ frameLog[Len(frameLog)].depth = depth
             /\ FrameTotal(frameLog[Len(frameLog)]) = frameLog[Len(frameLog)].basic
             /\ \A i \in 1..Len(FrameQueue) :
                   heap[FrameQueue[i].out] =
                      IF depth = 0 /\ FrameQueue[i].out \in DOMAIN atCall
                      THEN atCall[FrameQueue[i].out] ELSE EmptyObject)

\* a nested type of kind Unknown: the frame at depth 1 raised
C17_Witness ==
    /\ Failed
    /\ err.kind = "unknown"
    /\ err.depth = 1
    /\ err.names # <<>>
    /\ inner # <<>>
    /\ \E id \in BatchOut : Filled(id)

\* the fields of an object that hold no reference to another object
OwnFields(o) == [o EXCEPT !.attributes = <<>>, !.domain_base_type = 0, !.range_subtype = 0]

Cut == [cut |-> TRUE]

NoTree == [cut |-> FALSE]

\* the placeholder tree below an object of the heap, TreeDepth levels deep,
\* without the identities of the objects
RECURSIVE Unfold(_, _)
Unfold(id, d) ==
    IF d = 0 THEN Cut
    ELSE LET o == heap[id]
         IN  [fields |-> OwnFields(o),
              attributes |-> [j \in 1..Len(o.attributes) |->
                                [name |-> o.attributes[j].name,
                                 index |-> o.attributes[j].index,
                                 type |-> Unfold(o.attributes[j].type, d - 1)]],
              domain_base_type |-> IF "domain_base_type" \in o.keys
                                   THEN Unfold(o.domain_base_type, d - 1) ELSE NoTree,
              range_subtype |-> IF "range_subtype" \in o.keys
                                THEN Unfold(o.range_subtype, d - 1) ELSE NoTree]

\* the tree a type text stands for in the catalog: the text is parsed, its
\* basic info and its kind detail are looked up on their own, and every type
\* text the kind detail names is treated the same way
RECURSIVE TypeTree(_, _)
TypeTree(type, d) ==
    IF d = 0 THEN Cut
    ELSE LET p == parseRawType(type)
         IN  IF Regtype(p.plain) = 0 THEN NoTree
             ELSE LET info == BasicInfoRow(p.plain)
                      r == CASE info.kind = "enum" -> getEnumDetails(<<info>>)
                             [] info.kind = "composite" -> getCompositeDetails(<<info>>, 1)
                             [] info.kind = "domain" -> getDomainDetails(<<info>>, 1)
                             [] info.kind = "range" -> getRangeDetails(<<info>>, 1)
                             [] OTHER -> [details |-> Plain(<<info>>), members |-> <<>>]
                  IN  IF r.details = <<>> THEN NoTree
                      ELSE LET o == Result(p, info, r.details[1])
                           IN  [fields |-> OwnFields(o),
                                attributes |-> [j \in 1..Len(o.attributes) |->
                                                  [name |-> o.attributes[j].name,
                                                   index |-> o.attributes[j].index,
                                                   type |-> TypeTree(r.members[j].type, d - 1)]],
                                domain_base_type |-> IF "domain_base_type" \in o.keys
                                                     THEN TypeTree(r.members[1].type, d - 1)
                                                     ELSE NoTree,
                                range_subtype |-> IF "range_subtype" \in o.keys
                                                  THEN TypeTree(r.members[1].type, d - 1)
                                                  ELSE NoTree]

TypeTrees == [type \in RequestTypes |-> TypeTree(type, TreeDepth)]

\* C18: when a resolve call returns without error, the tree below the
\* placeholder of every request is the tree its type text stands for in the
\* catalog: it depends on nothing but the text and the catalog, so it is the
\* same in every session, whatever the other requests of the batch are and in
\* whatever order the kind-detail queries complete.
C18_TreesDetermined ==
    Returned =>
        \A i \in 1..Len(batch) : Unfold(batch[i].out, TreeDepth) = TypeTrees[batch[i].type]

\* a batch whose composite and domain details were both in flight at depth 0
C18_Witness ==
    /\ Returned
    /\ Len(batch) = 2
    /\ {heap[batch[i].out].kind : i \in 1..Len(batch)} = {"composite", "domain"}
    /\ \A id \in Reachable(BatchOut) : Filled(id)

\* C19: in an extraction, db.resolve() is called at most once, when every
\* populator has returned and reported; nothing is enqueued once it has been
\* called; and the connection is closed and the result returned only after
\* that one call has returned without error.
C19_ResolveOncePerExtraction ==
    /\ [][nResolve' # nResolve =>
             /\ nResolve = 0
             /\ xpc = "populating"
             /\ \A i \in 1..Len(populators) : populators[i] = "reported"
             /\ extracted = NotExtracted]_vars
    /\ [][nEnqueue' # nEnqueue => nResolve = 0]_vars
    /\ [](xpc \in {"closing", "returned"} =>
             /\ nResolve = 1
             /\ pc = "idle" /\ outcome = "ok"
             /\ Len(batch) = nEnqueue
             /\ \A i \in 1..Len(populators) : populators[i] = "reported")

\* a successful extraction of two types whose placeholders resolve filled
C19_Witness ==
    /\ xpc = "returned"
    /\ Len(typesToExtract) = 2
    /\ nEnqueue = 2
    /\ nResolve = 1
    /\ \A id \in BatchOut : Filled(id)
    /\ extracted.queryCount > 0

\* the positions of the calls of one progress callback in the history
Calls(name) == {k \in 1..Len(progress) : progress[k].call = name}

\* C20 as stated: when an extraction that got as far as its populators has
\* ended, onProgressStart has been called exactly once with the number of
\* types and before every onProgress call, onProgress exactly once for each
\* type, and onProgressEnd exactly once, after every onProgress call.
C20_ProgressCallbacks ==
    (xpc \in {"returned", "failed"} /\ populators # <<>>) =>
        /\ Cardinality(Calls("onProgressStart")) = 1
        /\ \A k \in Calls("onProgressStart") :
              progress[k].total = Len(typesToExtract) /\ k = 1
        /\ \A i \in 1..Len(typesToExtract) :
              Cardinality({k \in Calls("onProgress") : progress[k].type = i}) = 1
        /\ Cardinality(Calls("onProgressEnd")) = 1
        /\ \A k \in Calls("onProgressEnd") : k = Len(progress)

\* C20 amended: onProgressStart is called at most once, with the number of
\* types to extract and before every other callback; onProgress is called at
\* most once for a type; onProgressEnd is called at most once, after resolve
\* has returned without error and after the onProgress call of every type.
\* An extraction that returns has called onProgressStart once, onProgress
\* once for each type and onProgressEnd once; an extraction that fails has
\* not called onProgressEnd.
C20_ProgressCallbacksOnSuccess ==
    /\ Cardinality(Calls("onProgressStart")) <= 1
    /\ \A k \in Calls("onProgressStart") :
          progress[k].total = Len(typesToExtract) /\ k = 1
    /\ \A i \in 1..Len(typesToExtract) :
          Cardinality({k \in Calls("onProgress") : progress[k].type = i}) <= 1
    /\ Cardinality(Calls("onProgressEnd")) <= 1
    /\ \A k \in Calls("onProgressEnd") :
          /\ k = Len(progress)
          /\ Cardinality(Calls("onProgress")) = Len(typesToExtract)
          /\ nResolve = 1 /\ pc = "idle" /\ outcome = "ok"
    /\ xpc = "returned" =>
          /\ Cardinality(Calls("onProgressStart")) = 1
          /\ \A i \in 1..Len(typesToExtract) :
                Cardinality({k \in Calls("onProgress") : progress[k].type = i}) = 1
          /\ Cardinality(Calls("onProgressEnd")) = 1
    /\ xpc = "failed" => Calls("onProgressEnd") = {}

\* a successful extraction of two types: four callbacks in all
C20_Witness ==
    /\ xpc = "returned"
    /\ Len(typesToExtract) = 2
    /\ Len(progress) = 4
    /\ progress[1].total = 2
    /\ progress[4].call = "onProgressEnd"

\* the catalog id behind a canonical name
OidOf(name) == CHOOSE o \in Oids : QualifiedName(o) = name

\* C21 as stated: the detail cached under a canonical name is that type's own:
\* an enum's entry holds the enum's own labels, a composite's entry its own
\* attributes in order, and the nested request of a domain's or range's entry
\* asks for the type the query returned for that very entry.
C21_DetailsAligned ==
    \A name \in DOMAIN canonCache :
        LET d == canonCache[name]
            t == PgType[OidOf(name)]
        IN  /\ d.kind = "enum" => d.enum_values = PgEnum(OidOf(name))
            /\ d.kind = "composite" =>
                  /\ Len(d.attributes) = Len(PgAttribute(t.typrelid))
                  /\ \A j \in 1..Len(d.attributes) :
                        /\ d.attributes[j].name = PgAttribute(t.typrelid)[j].name
                        /\ d.attributes[j].index = PgAttribute(t.typrelid)[j].index
            /\ d.kind = "domain" =>
                  \A i \in 1..Len(internalQueue) :
                     internalQueue[i].out = d.domain_base_type =>
                        internalQueue[i].type = <<QualifiedName(FinalBase(OidOf(name)))>>
            /\ d.kind = "range" =>
                  \A i \in 1..Len(internalQueue) :
                     internalQueue[i].out = d.range_subtype =>
                        internalQueue[i].type = <<QualifiedName(RangeQueryOids(<<[oid |-> OidOf(name)]>>)[1])>>

\* C22: a frame below depth 0 starts, and with it the first query of its
\* depth is sent, only from the frame one level up, when all four kind-detail
\* calls of that frame have returned and every member of that frame has been
\* filled; and every query is sent by the deepest frame that has started.
C22_DepthsSequential ==
    /\ [][(Len(frameLog') > Len(frameLog) /\ depth' > 0) =>
             /\ depth' = depth + 1
             /\ pc = "filled"
             /\ pending = {}
             /\ frameLog[Len(frameLog)].depth = depth
             /\ \A i \in 1..Len(parsed) : Filled(FrameQueue[i].out)]_vars
    /\ [][queryCount' > queryCount =>
             /\ frameLog'[Len(frameLog')].depth = depth'
             /\ frameLog'[Len(frameLog')].call = nResolve'
             /\ pc # "details"]_vars
    /\ [](pc = "details" => frameLog[Len(frameLog)].depth = depth)

\* the basic-info query of depth 1 is in flight and depth 0 is filled
C22_Witness ==
    /\ pc = "basic"
    /\ depth = 1
    /\ frameLog[Len(frameLog)].basic = 1
    /\ \A id \in BatchOut : Filled(id)

\* what the four kind-detail calls return for the batches b when they
\* complete one after the other in the order of the source
SequentialReturns(b) ==
    LET e == getEnumDetails(b.enums)
        c == getCompositeDetails(b.composites, 1)
        d == getDomainDetails(b.domains, 1 + Len(c.members))
        r == getRangeDetails(b.ranges, 1 + Len(c.members) + Len(d.members))
    IN  [details |-> [enums |-> e.details, composites |-> c.details,
                      domains |-> d.details, ranges |-> r.details],
         members |-> c.members \o d.members \o r.members]

\* the details of a frame without the identities of the placeholders: every
\* detail with its payload, a nested placeholder standing for the type texts
\* of the follow-up members that hold it
Links(dets, q) ==
    LET typeAt(id) == {q[i].type : i \in {k \in 1..Len(q) : q[k].out = id}}
        link(tag, owner, slot, labels, types) ==
            [tag |-> tag, owner |-> owner, slot |-> slot, labels |-> labels,
             types |-> types]
    IN  {link("enum", dets.enums[i].canonical_name, 0, dets.enums[i].enum_values, {}) :
            i \in 1..Len(dets.enums)}
        \cup {link("composite", dets.composites[i].canonical_name,
                   Len(dets.composites[i].attributes), <<>>, {}) :
                 i \in 1..Len(dets.composites)}
        \cup UNION {{link("attribute", dets.composites[i].canonical_name,
                          dets.composites[i].attributes[j].index,
                          <<dets.composites[i].attributes[j].name>>,
                          typeAt(dets.composites[i].attributes[j].type)) :
                        j \in 1..Len(dets.composites[i].attributes)} :
                     i \in 1..Len(dets.composites)}
        \cup {link("domain", dets.domains[i].canonical_name, 0, <<>>,
                   typeAt(dets.domains[i].domain_base_type)) :
                 i \in 1..Len(dets.domains)}
        \cup {link("range", dets.ranges[i].canonical_name, 0, <<>>,
                   typeAt(dets.ranges[i].range_subtype)) :
                 i \in 1..Len(dets.ranges)}

\* the type texts of a queue, with their numbers of occurrences
TypeBag(q) == [t \in {q[i].type : i \in 1..Len(q)} |->
                 Cardinality({i \in 1..Len(q) : q[i].type = t})]

\* C23: when the four kind-detail calls of a frame have all returned, in
\* whatever order, the details they returned and the nested requests on the
\* follow-up queue are those of the calls completing one after the other, up
\* to the identity of the placeholders and the order of the follow-up queue;
\* and when the frame has filled its members, every member has the fields its
\* own type text stands for in the catalog.
C23_BatchesIndependent ==
    /\ (pc = "details" /\ pending = {}) =>
          \E seq \in {SequentialReturns(batches)} :
             /\ Links(details, internalQueue) = Links(seq.details, seq.members)
             /\ TypeBag(internalQueue) = TypeBag(seq.members)
             /\ \A k \in DOMAIN details : Len(details[k]) = Len(seq.details[k])
    /\ pc = "filled" =>
          \A i \in 1..Len(parsed) :
             OwnFields(heap[FrameQueue[i].out]) = TypeTree(FrameQueue[i].type, 1).fields

\* the domain call returned before the composite call of the same frame
C23_Witness ==
    /\ pc = "details"
    /\ pending = {}
    /\ details.composites # <<>>
    /\ details.domains # <<>>
    /\ details.domains[1].domain_base_type < details.composites[1].attributes[1].type

\* C24 as stated: every filled composite placeholder lists exactly the
\* attributes of its own relation, in ordinal order; and the placeholder of
\* every attribute of a composite detail the frame in flight received is
\* empty until the frame has filled its members, the next depth filling it.
C24_CompositeAttributes ==
    /\ \A id \in DOMAIN heap :
          (Filled(id) /\ heap[id].kind = "composite") =>
             LET own == PgAttribute(heap[id].typrelid)
             IN  /\ Len(heap[id].attributes) = Len(own)
                 /\ \A j \in 1..Len(own) :
                       /\ heap[id].attributes[j].name = own[j].name
                       /\ heap[id].attributes[j].index = own[j].index
    /\ pc \in {"details", "filled"} =>
          \A i \in 1..Len(details.composites) :
             \A j \in 1..Len(details.composites[i].attributes) :
                heap[details.composites[i].attributes[j].type] = EmptyObject

\* C25 as stated: a resolve call that returns leaves the queue empty; when a
\* call has returned and nothing has been enqueued since, every placeholder
\* enqueue ever handed out has been filled by a successful call; and a call
\* never starts with a member in its queue that a successful call has filled,
\* nor does any step change such a placeholder.
C25_ProcessedExactlyOnce ==
    /\ []((Returned /\ queue = <<>>) => \A i \in 1..Len(handles) : handles[i] \in settled)
    /\ [][(pc = "returned" /\ pc' = "idle") => queue' = <<>>]_vars
    /\ [][nResolve' # nResolve => \A i \in 1..Len(queue) : queue[i].out \notin settled]_vars
    /\ [][\A id \in settled : heap'[id] = heap[id]]_vars

\* the placeholders enqueue handed out after the latest resolve call started
EnqueuedSinceCall ==
    {handles[i] : i \in {j \in 1..Len(handles) : handles[j] > Len(atCall)}}

\* C27 as stated: once a resolve call has returned or raised, every member
\* enqueued since that call started, in particular while it was in flight,
\* has its placeholder filled or is still in the queue.
C27_NoRequestLost ==
    (pc = "idle" /\ nResolve > 0) =>
        \A id \in EnqueuedSinceCall :
            Filled(id) \/ \E i \in 1..Len(queue) : queue[i].out = id

\* C28: after a resolve call has raised, the queue still holds the members
\* it held when the call started, in their order and followed only by what
\* enqueue has added since; no step of a call that ends by raising changes
\* the queue; and the next resolve call parses every one of them again,
\* starting from empty caches.
C28_QueueKeptOnFailure ==
    /\ [](Failed =>
            /\ Len(queue) >= Len(batch)
            /\ SubSeq(queue, 1, Len(batch)) = batch
            /\ \A i \in (Len(batch) + 1)..Len(queue) : queue[i].out \in EnqueuedSinceCall)
    /\ [][outcome' = "error" /\ pc # "idle" => queue' = queue]_vars
    /\ [][(Failed /\ nResolve' # nResolve) =>
            /\ batch' = queue
            /\ Len(parsed') = Len(queue)
            /\ \A i \in 1..Len(queue) : parsed'[i] = parseRawType(queue[i].type)
            /\ \A i \in 1..Len(parsed') : parsed'[i].plain \in SeqRange(plain')]_vars

\* a resolve call has raised at a nested depth, after it had filled a member,
\* and its queue of two members is intact
C28_Witness ==
    /\ Failed
    /\ err.depth > 0
    /\ Len(batch) = 2
    /\ queue = batch
    /\ \E id \in BatchOut : Filled(id)

\* C26: the definition TABLE(...) of a list of columns is parsed into one
\* {name, type} pair per column, in the order of the list: the name without
\* its quotes and escapes, the type as written.  A comma inside parentheses or
\* inside quotes ends no column.
C26_TableColumns ==
    (pOut # NotParsed /\ pText.columns # <<>>) =>
        pOut = [i \in 1..Len(pText.columns) |->
                  [name |-> pText.columns[i].name, type |-> pText.columns[i].type]]

\* a definition of two columns has been parsed: the first has a quoted name
\* with an escaped quote and a type with a comma inside parentheses, the
\* second a quoted name with a space
C26_Witness ==
    /\ pOut # NotParsed
    /\ \E cols \in {pText.columns} :
          /\ Len(cols) = 2
          /\ cols[1].name = <<"quoted", "\"", "identifier">>
          /\ cols[1].type = <<"decimal", "(", "10", ",", "2", ")">>
          /\ cols[2].name = <<"User", " ", "Name">>
          /\ Len(pOut) = 2

\* the canonical names of the catalog
CatalogNames == {QualifiedName(o) : o \in Oids}

\* the canonical names in the kind-detail batches of the frame in flight
BatchedNames ==
    {r.canonical_name :
        r \in SeqRange(batches.enums \o batches.composites \o batches.domains
                           \o batches.ranges)}

OwnRequestFields(m) ==
    \E p \in {parseRawType(m.type)} :
        /\ heap[m.out].original_type = m.type
        /\ heap[m.out].modifiers = p.modifiers
        /\ heap[m.out].dimensions =
              p.dimensions + TypeResolution(Regtype(p.plain), 1).level - 1

\* C30: when a frame has filled its members, every member's placeholder
\* carries the request fields of its own text, and members with one canonical
\* name have the same kind and the same kind-specific payload; the same holds
\* for the members of the call's queue when the call has returned.
C30_RequestFieldsOwn ==
    /\ pc = "filled" =>
          /\ \A i \in 1..Len(parsed) : OwnRequestFields(FrameQueue[i])
          /\ \A i, j \in 1..Len(parsed) :
                heap[FrameQueue[i].out].canonical_name = heap[FrameQueue[j].out].canonical_name
                    => Payload(FrameQueue[i].out) = Payload(FrameQueue[j].out)
    /\ Returned =>
          /\ \A i \in 1..Len(batch) : OwnRequestFields(batch[i])
          /\ \A i, j \in 1..Len(batch) :
                heap[batch[i].out].canonical_name = heap[batch[j].out].canonical_name
                    => Payload(batch[i].out) = Payload(batch[j].out)

\* a call has returned for two requests with one canonical name whose
\* placeholders differ in original_type, in modifiers and in dimensions
C30_Witness ==
    /\ Returned
    /\ Len(batch) = 2
    /\ \E a \in {heap[batch[1].out]}, b \in {heap[batch[2].out]} :
          /\ a.canonical_name = b.canonical_name
          /\ a.original_type # b.original_type
          /\ a.modifiers # b.modifiers
          /\ a.dimensions # b.dimensions
          /\ a.kind = b.kind

====
